---- MODULE Spec2Model ----
(***************************************************************************)
(* Model of the bevy_meshing example's mesh generator                      *)
(* (examples/bevy_meshing/mesh_generator.rs) and of the cube signed        *)
(* distance field (building_blocks_procgen/src/signed_distance_fields.rs). *)
(*                                                                         *)
(* One call of mesh_generator_system is one update step.  The chunk loops  *)
(* of the two drivers are stepped one chunk at a time; pc records which    *)
(* loop the call is in, so no other update step can start before the call  *)
(* returns.  Spawn and despawn commands are applied to the world at the    *)
(* point where the code issues them.                                       *)
(***************************************************************************)
EXTENDS Integers, Sequences, FiniteSets

VARIABLES
    current_shape_index,    \* MeshGeneratorState.current_shape_index
    chunk_mesh_entities,    \* MeshGeneratorState.chunk_mesh_entities
    surface_nets_nonempty,  \* surface_nets_buffer.mesh.indices is not empty
    height_map_nonempty,    \* height_map_mesh_buffer.mesh.indices is not empty
    live_entities,          \* entities spawned and not yet despawned
    spawn_count,            \* number of entities spawned so far (ids 1..spawn_count)
    despawn_count,          \* despawn_count[e]: number of despawn commands for e
    keyboard_input,         \* keys just pressed in the current update step
    new_shape_requested,    \* local of mesh_generator_system
    pc,                     \* "idle", "sdf", "hm" or "panicked"
    chunk_cursor,           \* position of the chunk_keys() iterator
    chunk_key,              \* chunk key of the loop body that ran last
    padded_chunk_extent,    \* extent sampled by the loop body that ran last
    updates,                \* number of update steps started
    regenerated,            \* the current update step took the regeneration branch
    regen_created,          \* entities created by the most recent regeneration
    nonempty_extractions,   \* non-empty extractions of the most recent regeneration
    cube_c, cube_r, cube_p, \* inputs of the cube field
    cube_out                \* result of the cube field

genVars == <<current_shape_index, chunk_mesh_entities, surface_nets_nonempty,
             height_map_nonempty, live_entities, spawn_count, despawn_count,
             keyboard_input, new_shape_requested, pc, chunk_cursor, chunk_key,
             padded_chunk_extent, updates, regenerated, regen_created,
             nonempty_extractions>>
cubeVars == <<cube_c, cube_r, cube_p, cube_out>>
vars == <<genVars, cubeVars>>

\* ------------------------------------------------------------------ bounds
MaxUpdates == 2
MaxMeshesPerRegen == 2
CubePointMax == 2
CubeCentreMax == 1
CubeRadiusMax == 2

\* ----------------------------------------------------------------- helpers
\* values of the loop locals outside the loops, and of the unevaluated field
NoKey == <<>>
NoExtent == [minimum |-> <<>>, shape |-> <<>>]
NotEvaluated == [evaluated |-> FALSE, value |-> 0]
Range(s) == {s[i] : i \in 1..Len(s)}
Max2(a, b) == IF a >= b THEN a ELSE b
Min2(a, b) == IF a <= b THEN a ELSE b
Abs(a) == IF a < 0 THEN -a ELSE a

\* PointN([v; d])
Splat(d, v) == [a \in 1..d |-> v]

\* --------------------------------------------------- extents (library code)
from_min_and_shape(minimum, shape) == [minimum |-> minimum, shape |-> shape]

ExtentMax(e) == [a \in DOMAIN e.minimum |-> e.minimum[a] + e.shape[a] - 1]

from_min_and_max(minimum, max) ==
    [minimum |-> minimum,
     shape |-> [a \in DOMAIN minimum |-> max[a] - minimum[a] + 1]]

\* grow by n on every face
padded(e, n) ==
    [minimum |-> [a \in DOMAIN e.minimum |-> e.minimum[a] - n],
     shape |-> [a \in DOMAIN e.shape |-> e.shape[a] + 2 * n]]

\* grow the max corner
add_to_shape(e, d) ==
    [minimum |-> e.minimum,
     shape |-> [a \in DOMAIN e.shape |-> e.shape[a] + d[a]]]

\* clip to bounds
intersection(e, other) ==
    from_min_and_max(
        [a \in DOMAIN e.minimum |-> Max2(e.minimum[a], other.minimum[a])],
        [a \in DOMAIN e.minimum |-> Min2(ExtentMax(e)[a], ExtentMax(other)[a])])

\* ------------------------------------------------ chunk map (library code)
\* minimum corner of the chunk containing coordinate x, chunk edge length s
ChunkMinOf(x, s) == (x \div s) * s

extent_for_chunk_at_key(key, chunk_shape) == from_min_and_shape(key, chunk_shape)

\* number of chunks along axis a that copy_extent(extent, ..) writes
AxisChunks(extent, chunk_shape, a) ==
    (ChunkMinOf(ExtentMax(extent)[a], chunk_shape[a])
        - ChunkMinOf(extent.minimum[a], chunk_shape[a])) \div chunk_shape[a] + 1

RECURSIVE AxisStride(_, _, _)
AxisStride(extent, chunk_shape, a) ==
    IF a = 1 THEN 1
    ELSE AxisStride(extent, chunk_shape, a - 1)
            * AxisChunks(extent, chunk_shape, a - 1)

\* the keys of the chunks written by copy_extent(extent, ..), in a fixed order
chunk_keys(extent, chunk_shape) ==
    LET d == Len(chunk_shape)
        n == AxisStride(extent, chunk_shape, d + 1)
    IN [i \in 1..n |->
          [a \in 1..d |->
              ChunkMinOf(extent.minimum[a], chunk_shape[a])
                + (((i - 1) \div AxisStride(extent, chunk_shape, a))
                      % AxisChunks(extent, chunk_shape, a)) * chunk_shape[a]]]

\* ------------------------------------------------- signed distance fields
\* cube(c, r)(p): max over the axes of |p - c|, minus r
cube_NoAbs(c, r, p) ==
    LET diff == [a \in 1..3 |-> p[a] - c[a]]
    IN Max2(Max2(diff[1], diff[2]), diff[3]) - r

cube(c, r, p) ==
    LET diff == [a \in 1..3 |-> p[a] - c[a]]
        max_dim == Max2(Max2(Abs(diff[1]), Abs(diff[2])), Abs(diff[3]))
    IN max_dim - r

\* ------------------------------------------------------- shape selection
NUM_SHAPES == 5

\* panic!("bad shape index")
Panic == [category |-> "Panic", variant |-> "bad shape index"]

choose_shape(index) ==
    CASE index = 0 -> [category |-> "Sdf", variant |-> "Cube"]
      [] index = 1 -> [category |-> "Sdf", variant |-> "Plane"]
      [] index = 2 -> [category |-> "Sdf", variant |-> "Sphere"]
      [] index = 3 -> [category |-> "Sdf", variant |-> "Torus"]
      [] index = 4 -> [category |-> "HeightMap", variant |-> "Wave"]
      [] OTHER -> Panic

\* the remainder of Rust's % operator: it has the sign of the dividend
rem_truncated(a, n) == IF a >= 0 THEN a % n ELSE -((-a) % n)

\* i32::rem_euclid for n > 0: the non-negative remainder
rem_euclid(a, n) == a % n

\* new_shape_requested after the key handling
NewShapeRequested(kb) == kb.left \/ kb.right

\* current_shape_index after the key handling; Left is tested first
NextShapeIndex(index, kb) ==
    IF kb.left THEN rem_euclid(index - 1, NUM_SHAPES)
    ELSE IF kb.right THEN rem_euclid(index + 1, NUM_SHAPES)
    ELSE index

RegenerationNeeded_KeyOnly(requested, entities) == requested

RegenerationNeeded_Always(requested, entities) == TRUE

\* the condition of the regeneration branch
RegenerationNeeded(requested, entities) == requested \/ entities = <<>>

Drained_Kept(entities) == entities

\* chunk_mesh_entities once the drain(..) iterator is dropped
Drained(entities) == <<>>

\* number of despawn commands the drain loop issues for entity e
DespawnCommands(entities, e) ==
    Cardinality({i \in 1..Len(entities) : entities[i] = e})

\* ----------------------------------------------------- the two drivers
SdfSampleExtent == from_min_and_shape(Splat(3, -50), Splat(3, 100))
SdfChunkShape == Splat(3, 16)
SdfChunkKeys == chunk_keys(SdfSampleExtent, SdfChunkShape)

HmSampleExtent == from_min_and_shape(Splat(2, -50), Splat(2, 100))
HmChunkShape == Splat(2, 16)
HmChunkKeys == chunk_keys(HmSampleExtent, HmChunkShape)

PaddedChunkExtentSdf_Clipped(key) ==
    intersection(padded(extent_for_chunk_at_key(key, SdfChunkShape), 1),
                 SdfSampleExtent)

\* padded_chunk_extent of the volumetric driver
PaddedChunkExtentSdf(key) ==
    padded(extent_for_chunk_at_key(key, SdfChunkShape), 1)

PaddedChunkExtentHm_NoAddToShape(key) ==
    intersection(padded(extent_for_chunk_at_key(key, HmChunkShape), 1),
                 HmSampleExtent)

PaddedChunkExtentHm_NoIntersection(key) ==
    add_to_shape(padded(extent_for_chunk_at_key(key, HmChunkShape), 1),
                 Splat(2, 1))

\* padded_chunk_extent of the heightfield driver
PaddedChunkExtentHm(key) ==
    intersection(
        add_to_shape(padded(extent_for_chunk_at_key(key, HmChunkShape), 1),
                     Splat(2, 1)),
        HmSampleExtent)

SkipChunk_Never(indices_nonempty) == FALSE

\* the test that guards `continue`
SkipChunk(indices_nonempty) == ~indices_nonempty

AfterSkip_Break(cursor, n) == n + 1

\* iterator position after `continue`: the next chunk key
AfterSkip(cursor, n) == cursor + 1

\* results the extraction algorithm may leave in the mesh buffer for one
\* chunk: TRUE is a non-empty index list
ExtractionOutcomes ==
    IF nonempty_extractions < MaxMeshesPerRegen THEN BOOLEAN ELSE {FALSE}

\* ------------------------------------------------------------------ Init
InitGen ==
    /\ current_shape_index = 0
    /\ chunk_mesh_entities = <<>>
    /\ surface_nets_nonempty = FALSE
    /\ height_map_nonempty = FALSE
    /\ live_entities = {}
    /\ spawn_count = 0
    /\ despawn_count = <<>>
    /\ keyboard_input = [left |-> FALSE, right |-> FALSE]
    /\ new_shape_requested = FALSE
    /\ pc = "idle"
    /\ chunk_cursor = 0
    /\ chunk_key = NoKey
    /\ padded_chunk_extent = NoExtent
    /\ updates = 0
    /\ regenerated = FALSE
    /\ regen_created = {}
    /\ nonempty_extractions = 0

Init ==
    /\ InitGen
    /\ cube_c = Splat(3, 0)
    /\ cube_r = 35
    /\ cube_p = Splat(3, 0)
    /\ cube_out = NotEvaluated

\* --------------------------------------------------------------- actions
\* One call of mesh_generator_system up to the call of a driver: the key
\* handling, the test of the regeneration branch, the teardown of the old
\* meshes and the choice of the shape.
mesh_generator_system ==
    /\ pc = "idle"
    /\ updates < MaxUpdates
    /\ \E left \in BOOLEAN, right \in BOOLEAN :
         LET kb == [left |-> left, right |-> right]
             requested == NewShapeRequested(kb)
             index == NextShapeIndex(current_shape_index, kb)
             shape == choose_shape(index)
         IN /\ keyboard_input' = kb
            /\ new_shape_requested' = requested
            /\ current_shape_index' = index
            /\ updates' = updates + 1
            /\ IF RegenerationNeeded(requested, chunk_mesh_entities)
               THEN /\ regenerated' = TRUE
                    /\ live_entities' = live_entities \ Range(chunk_mesh_entities)
                    /\ despawn_count' =
                         [e \in DOMAIN despawn_count |->
                            despawn_count[e] + DespawnCommands(chunk_mesh_entities, e)]
                    /\ chunk_mesh_entities' = Drained(chunk_mesh_entities)
                    /\ regen_created' = {}
                    /\ nonempty_extractions' = 0
                    /\ chunk_cursor' = IF shape = Panic THEN 0 ELSE 1
                    /\ pc' = IF shape = Panic THEN "panicked"
                             ELSE IF shape.category = "Sdf" THEN "sdf" ELSE "hm"
               ELSE /\ regenerated' = FALSE
                    /\ UNCHANGED <<live_entities, despawn_count, chunk_mesh_entities,
                                   regen_created, nonempty_extractions, chunk_cursor,
                                   pc>>
            /\ UNCHANGED <<surface_nets_nonempty, height_map_nonempty, spawn_count,
                           chunk_key, padded_chunk_extent, cubeVars>>

\* The tail of a loop body: `continue` when the mesh buffer's index list is
\* empty, else create_mesh_entity and the push of its handle.
\* extracted_nonempty is what the extraction produced, buffer_nonempty what
\* the test reads from the buffer.
EmitOrSkip(extracted_nonempty, buffer_nonempty, n) ==
    /\ nonempty_extractions' =
         nonempty_extractions + (IF extracted_nonempty THEN 1 ELSE 0)
    /\ IF SkipChunk(buffer_nonempty)
       THEN /\ chunk_cursor' = AfterSkip(chunk_cursor, n)
            /\ UNCHANGED <<chunk_mesh_entities, live_entities, spawn_count,
                           despawn_count, regen_created>>
       ELSE /\ chunk_cursor' = chunk_cursor + 1
            /\ spawn_count' = spawn_count + 1
            /\ live_entities' = live_entities \cup {spawn_count + 1}
            /\ despawn_count' = Append(despawn_count, 0)
            /\ chunk_mesh_entities' = Append(chunk_mesh_entities, spawn_count + 1)
            /\ regen_created' = regen_created \cup {spawn_count + 1}

\* one iteration of the loop of generate_chunk_meshes_from_sdf
sdf_chunk ==
    /\ pc = "sdf"
    /\ chunk_cursor <= Len(SdfChunkKeys)
    /\ chunk_key' = SdfChunkKeys[chunk_cursor]
    /\ padded_chunk_extent' = PaddedChunkExtentSdf(SdfChunkKeys[chunk_cursor])
    /\ \E indices_nonempty \in ExtractionOutcomes :
         /\ surface_nets_nonempty' = indices_nonempty
         /\ EmitOrSkip(indices_nonempty, surface_nets_nonempty', Len(SdfChunkKeys))
    /\ UNCHANGED <<current_shape_index, height_map_nonempty, keyboard_input,
                   new_shape_requested, pc, updates, regenerated, cubeVars>>

\* one iteration of the loop of generate_chunk_meshes_from_height_map
hm_chunk ==
    /\ pc = "hm"
    /\ chunk_cursor <= Len(HmChunkKeys)
    /\ chunk_key' = HmChunkKeys[chunk_cursor]
    /\ padded_chunk_extent' = PaddedChunkExtentHm(HmChunkKeys[chunk_cursor])
    /\ \E indices_nonempty \in ExtractionOutcomes :
         /\ height_map_nonempty' = indices_nonempty
         /\ EmitOrSkip(indices_nonempty, height_map_nonempty', Len(HmChunkKeys))
    /\ UNCHANGED <<current_shape_index, surface_nets_nonempty, keyboard_input,
                   new_shape_requested, pc, updates, regenerated, cubeVars>>

\* the chunk_keys() iterator is exhausted: the driver and the system return
sdf_return ==
    /\ pc = "sdf"
    /\ chunk_cursor > Len(SdfChunkKeys)
    /\ pc' = "idle"
    /\ chunk_cursor' = 0
    /\ chunk_key' = NoKey
    /\ padded_chunk_extent' = NoExtent
    /\ UNCHANGED <<current_shape_index, chunk_mesh_entities, surface_nets_nonempty,
                   height_map_nonempty, live_entities, spawn_count, despawn_count,
                   keyboard_input, new_shape_requested, updates, regenerated,
                   regen_created, nonempty_extractions, cubeVars>>

hm_return ==
    /\ pc = "hm"
    /\ chunk_cursor > Len(HmChunkKeys)
    /\ pc' = "idle"
    /\ chunk_cursor' = 0
    /\ chunk_key' = NoKey
    /\ padded_chunk_extent' = NoExtent
    /\ UNCHANGED <<current_shape_index, chunk_mesh_entities, surface_nets_nonempty,
                   height_map_nonempty, live_entities, spawn_count, despawn_count,
                   keyboard_input, new_shape_requested, updates, regenerated,
                   regen_created, nonempty_extractions, cubeVars>>

Next ==
    \/ mesh_generator_system
    \/ sdf_chunk
    \/ hm_chunk
    \/ sdf_return
    \/ hm_return

Spec == Init /\ [][Next]_vars

\* The call is synchronous: a driver that has started keeps running until
\* it returns.
FairSpec ==
    /\ Spec
    /\ WF_vars(sdf_chunk) /\ WF_vars(hm_chunk)
    /\ WF_vars(sdf_return) /\ WF_vars(hm_return)

\* ------------------------------------------- the cube field on its own
CubePoints == {<<x, y, z>> : x \in -CubePointMax..CubePointMax,
                             y \in -CubePointMax..CubePointMax,
                             z \in -CubePointMax..CubePointMax}
CubeCentres == {<<x, y, z>> : x \in -CubeCentreMax..CubeCentreMax,
                              y \in -CubeCentreMax..CubeCentreMax,
                              z \in -CubeCentreMax..CubeCentreMax}

InitCube ==
    /\ InitGen
    /\ cube_c \in CubeCentres
    /\ cube_r \in 0..CubeRadiusMax
    /\ cube_p \in CubePoints
    /\ cube_out = NotEvaluated

EvalCube ==
    /\ cube_out = NotEvaluated
    /\ cube_out' = [evaluated |-> TRUE, value |-> cube(cube_c, cube_r, cube_p)]
    /\ UNCHANGED <<cube_c, cube_r, cube_p, genVars>>

NextCube == EvalCube

SpecCube == InitCube /\ [][NextCube]_vars

\* =============================================================== claims
InLoop == pc \in {"sdf", "hm"}
LoopBodyRan == InLoop /\ chunk_key # NoKey
KeysOf(p) == IF p = "sdf" THEN SdfChunkKeys ELSE HmChunkKeys

\* C1: whenever mesh_generator_system has returned, the live mesh entities
\* are exactly the handles in chunk_mesh_entities (each once), these are
\* exactly the handles created by the most recent regeneration, and every
\* handle of an earlier regeneration has been despawned exactly once.
C1_LiveHandlesAreLatestRegeneration ==
    pc = "idle" =>
        /\ live_entities = Range(chunk_mesh_entities)
        /\ Cardinality(live_entities) = Len(chunk_mesh_entities)
        /\ Range(chunk_mesh_entities) = regen_created
        /\ \A e \in 1..spawn_count :
              despawn_count[e] = IF e \in regen_created THEN 0 ELSE 1

C1_Witness ==
    /\ pc = "idle"
    /\ updates >= 2
    /\ chunk_mesh_entities # <<>>
    /\ \E e \in 1..spawn_count : despawn_count[e] = 1

\* C2: the shape index stays in 0..NUM_SHAPES-1 and choose_shape never
\* panics; a Left press moves the index one down and a Right press (without
\* Left) one up, wrapping around at both ends.
C2_ShapeIndexWraps ==
    /\ [](/\ current_shape_index \in 0..(NUM_SHAPES - 1)
          /\ choose_shape(current_shape_index) # Panic
          /\ pc # "panicked")
    /\ [][updates' # updates =>
            current_shape_index' =
                IF keyboard_input'.left
                THEN (IF current_shape_index = 0 THEN NUM_SHAPES - 1
                      ELSE current_shape_index - 1)
                ELSE IF keyboard_input'.right
                THEN (IF current_shape_index = NUM_SHAPES - 1 THEN 0
                      ELSE current_shape_index + 1)
                ELSE current_shape_index]_vars

C2_Witness ==
    /\ updates = 1
    /\ keyboard_input.left
    /\ current_shape_index = NUM_SHAPES - 1

\* C3 as stated: an update step regenerates only if Left or Right was just
\* pressed in that step.
C3_RegenerationOnlyOnShapeChange ==
    (updates >= 1 /\ regenerated) => (keyboard_input.left \/ keyboard_input.right)

\* C3 amended: an update step regenerates if and only if Left or Right was
\* just pressed in that step or chunk_mesh_entities was empty when it began.
C3_RegenerationOnShapeChangeOrNoMeshes ==
    [][updates' # updates =>
         /\ regenerated' <=> (\/ keyboard_input'.left
                              \/ keyboard_input'.right
                              \/ chunk_mesh_entities = <<>>)
         /\ regenerated' <=> (pc' \in {"sdf", "hm"})]_vars

C3_Witness ==
    /\ updates = 2
    /\ regenerated
    /\ InLoop
    /\ ~keyboard_input.left
    /\ ~keyboard_input.right

\* C4: the extent the volumetric driver samples for a chunk is the chunk's
\* native extent with the minimum lowered by 1 and the shape raised by 2 on
\* every axis, clipped nowhere.
C4_VolumetricPaddingIsOneEveryFace ==
    (pc = "sdf" /\ chunk_key # NoKey) =>
        \A a \in 1..3 :
            /\ padded_chunk_extent.minimum[a] = chunk_key[a] - 1
            /\ padded_chunk_extent.shape[a] = SdfChunkShape[a] + 2

C4_Witness ==
    /\ pc = "sdf"
    /\ chunk_key # NoKey
    /\ \E a \in 1..3 :
          padded_chunk_extent.minimum[a] < SdfSampleExtent.minimum[a]
    /\ \E a \in 1..3 :
          ExtentMax(padded_chunk_extent)[a] > ExtentMax(SdfSampleExtent)[a]

\* C5: the extent the heightfield driver samples for a chunk runs, on every
\* axis, from the larger of (chunk minimum - 1) and the domain minimum to the
\* smaller of (chunk maximum + 2) and the domain maximum, so it lies inside
\* the sampling domain and is cut off at the domain boundary.
C5_HeightfieldPaddingClipped ==
    (pc = "hm" /\ chunk_key # NoKey) =>
        \A a \in 1..2 :
            LET lo == Max2(chunk_key[a] - 1, HmSampleExtent.minimum[a])
                hi == Min2(chunk_key[a] + HmChunkShape[a] - 1 + 2,
                           HmSampleExtent.minimum[a] + HmSampleExtent.shape[a] - 1)
            IN /\ padded_chunk_extent.minimum[a] = lo
               /\ padded_chunk_extent.shape[a] = hi - lo + 1
               /\ HmSampleExtent.minimum[a] <= lo
               /\ hi < HmSampleExtent.minimum[a] + HmSampleExtent.shape[a]

\* a corner chunk: cut by 14 cells at the minimum on one axis and by 17 at the
\* maximum on the other
C5_Witness ==
    /\ pc = "hm"
    /\ chunk_key # NoKey
    /\ padded_chunk_extent.minimum[1] > chunk_key[1] - 1
    /\ padded_chunk_extent.shape[1] < HmChunkShape[1] + 3
    /\ padded_chunk_extent.minimum[2] = chunk_key[2] - 1
    /\ padded_chunk_extent.shape[2] < HmChunkShape[2] + 3

\* the coordinates along axis a of the lattice points of extent e
AxisCoords(e, a) == e.minimum[a]..(e.minimum[a] + e.shape[a] - 1)

ReadsInside(e, domain) ==
    \A a \in DOMAIN e.minimum : \A x \in AxisCoords(e, a) : x \in AxisCoords(domain, a)

\* C6 as stated: with either driver, no lattice point outside the sampling
\* domain is read into the local padded array.
C6_NoReadOutsideDomain ==
    LoopBodyRan =>
        ReadsInside(padded_chunk_extent,
                    IF pc = "sdf" THEN SdfSampleExtent ELSE HmSampleExtent)

\* C6 amended: the heightfield driver reads no lattice point outside the
\* sampling domain; the volumetric driver reads outside it exactly for the
\* chunks whose 1-cell border sticks out of the domain.
C6_OnlyHeightfieldReadsAreClipped ==
    /\ (pc = "hm" /\ chunk_key # NoKey) =>
          ReadsInside(padded_chunk_extent, HmSampleExtent)
    /\ (pc = "sdf" /\ chunk_key # NoKey) =>
          (ReadsInside(padded_chunk_extent, SdfSampleExtent)
             <=> \A a \in 1..3 :
                    /\ chunk_key[a] - 1 >= SdfSampleExtent.minimum[a]
                    /\ chunk_key[a] + SdfChunkShape[a]
                          <= ExtentMax(SdfSampleExtent)[a])

C6_Witness ==
    /\ pc = "hm"
    /\ chunk_key # NoKey
    /\ padded_chunk_extent.minimum[1] = HmSampleExtent.minimum[1]
    /\ ExtentMax(padded_chunk_extent)[2] = ExtentMax(HmSampleExtent)[2]

\* C7: the handles pushed and the entities created by a regeneration are as
\* many as the chunks whose extraction left a non-empty index list, at every
\* point of the regeneration and after it.
C7_HandlePerNonEmptyChunk ==
    /\ Len(chunk_mesh_entities) = nonempty_extractions
    /\ Cardinality(regen_created) = nonempty_extractions

C7_Witness ==
    /\ pc = "idle"
    /\ regenerated
    /\ current_shape_index = NUM_SHAPES - 1
    /\ Len(chunk_mesh_entities) = 1
    /\ nonempty_extractions = 1
    /\ ~height_map_nonempty

\* C8: while a driver runs no key is handled; every loop step takes the next
\* chunk key of the map, so each key is processed once and in sequence; the
\* driver returns only after the last key; and a driver that has started
\* always returns to Idle.
C8_RegenerationRunsToCompletion ==
    /\ [][InLoop => /\ keyboard_input' = keyboard_input
                    /\ current_shape_index' = current_shape_index
                    /\ updates' = updates]_vars
    /\ [][(InLoop /\ pc' = pc) =>
             /\ chunk_cursor \in 1..Len(KeysOf(pc))
             /\ chunk_key' = KeysOf(pc)[chunk_cursor]
             /\ chunk_cursor' = chunk_cursor + 1]_vars
    /\ [][(InLoop /\ pc' # pc) =>
             /\ pc' = "idle"
             /\ chunk_cursor = Len(KeysOf(pc)) + 1
             /\ Cardinality(Range(KeysOf(pc))) = Len(KeysOf(pc))]_vars
    /\ (InLoop ~> pc = "idle")

C8_Witness ==
    /\ pc = "idle"
    /\ regenerated
    /\ updates = 2
    /\ nonempty_extractions = 1

\* p lies within the L-infinity ball of radius r centred at c
InBall(p, c, r) == \A a \in 1..3 : c[a] - r <= p[a] /\ p[a] <= c[a] + r

\* C9: cube(c, r)(p) <= 0 exactly when p lies within the L-infinity ball of
\* radius r centred at c, and the value plus r is the L-infinity distance
\* from p to c (the least radius whose ball contains p).
C9_CubeIsChebyshevBall ==
    cube_out.evaluated =>
        /\ (cube_out.value <= 0) <=> InBall(cube_p, cube_c, cube_r)
        /\ InBall(cube_p, cube_c, cube_out.value + cube_r)
        /\ ~InBall(cube_p, cube_c, cube_out.value + cube_r - 1)

C9_Witness ==
    /\ cube_out.evaluated
    /\ cube_out.value = 0
    /\ cube_r > 0
    /\ cube_p[1] < cube_c[1]

\* C10: an update step in which neither Left nor Right was just pressed and
\* which began with a non-empty chunk_mesh_entities changes neither the shape
\* index nor the handles, and spawns and despawns nothing.
C10_NoKeyNoChange ==
    [][(/\ updates' # updates
        /\ ~keyboard_input'.left
        /\ ~keyboard_input'.right
        /\ chunk_mesh_entities # <<>>) =>
           /\ pc' = "idle"
           /\ UNCHANGED <<current_shape_index, chunk_mesh_entities, live_entities,
                          spawn_count, despawn_count>>]_vars

C10_Witness ==
    /\ pc = "idle"
    /\ updates = 2
    /\ ~regenerated
    /\ ~keyboard_input.left
    /\ ~keyboard_input.right
    /\ chunk_mesh_entities # <<>>

====
